---- MODULE Spec2Model ----
(***************************************************************************)
(* Model of viz-rs/highlighting, src/lib.rs: the language registry         *)
(* `Languages` (insert, insert_with_names, get, render), the class-table   *)
(* builder `names_to_classes`, and the HTML rendering that                 *)
(* `Languages::render` drives through tree_sitter_highlight::HtmlRenderer  *)
(* (render + lines) before wrapping every line in <span class=line>.       *)
(*                                                                         *)
(* A Rust String / byte buffer is a sequence of pieces.  A piece is either *)
(* one source byte or one literal the code pushes as a unit ("<span",      *)
(* "class=", "</span>", "&lt;", ...).  Offsets into a buffer count pieces. *)
(* The empty string is the empty sequence.                                 *)
(***************************************************************************)
EXTENDS Integers, Sequences, FiniteSets, TLC

\* ------------------------------------------------------------------ bounds
\* longest source (in characters) handed to render
MaxLen == 2
\* most HighlightStart and HighlightEnd events the tokenizer emits in one render
MaxEvents == 4
\* longest role-name list the class-table specification draws
MaxNames == 3
\* the same two envs while the registry is being explored
RegLen == 1
RegEvents == 1

\* ------------------------------------------------------------ program data
NAMES ==
  << "annotation", "attribute", "boolean", "character", "character.special",
     "comment", "conditional", "constant", "constant.builtin", "constant.macro",
     "constructor", "debug", "define", "error", "exception", "field", "float",
     "function", "function.call", "function.builtin", "function.macro",
     "include", "keyword", "keyword.function", "keyword.operator",
     "keyword.return", "label", "method", "method.call", "namespace", "none",
     "number", "operator", "parameter", "parameter.reference", "preproc",
     "property", "punctuation.deenver", "punctuation.bracket",
     "punctuation.special", "repeat", "storageclass", "string", "string.regex",
     "string.escape", "string.special", "symbol", "tag", "tag.attribute",
     "tag.deenver", "text", "text.strong", "text.emphasis", "text.underline",
     "text.strike", "text.title", "text.literal", "text.uri", "text.math",
     "text.reference", "text.environment", "text.environment.name", "text.note",
     "text.warning", "text.danger", "todo", "type", "type.builtin",
     "type.qualifier", "type.definition", "variable", "variable.builtin" >>

\* Option<T>: None is the empty tuple, Some(v) the one-element tuple
None == << >>
Some(v) == << v >>

\* a &str as a buffer of pieces
Str(s) == IF s = "" THEN << >> ELSE << s >>

\* ------------------------------------------------------------ input sets
Langs == {"x", "y"}
Grammars == {"g1", "g2"}
\* role-name lists passed to insert_with_names
CustomNames == { << "string", "comment" >>, << "comment" >> }
\* role names the class-table specification draws from (duplicates, the empty
\* name and a name with an HTML-special character included)
RoleNames == {"string", "comment", "", "a<b"}
\* source characters; "U+00E9" is a two-byte UTF-8 character
PlainChars == {"a", "\n"}
Chars == {"a", "\n", "\r", "&", "<", ">", "\"", "'", "U+00E9"}
\* capture indices the tokenizer may put in a HighlightStart (1 is outside the
\* one-name class table)
Captures == {0, 1}

RECURSIVE SeqsUpTo(_, _)
SeqsUpTo(S, n) ==
  IF n = 0 THEN { << >> }
  ELSE LET shorter == SeqsUpTo(S, n - 1)
       IN shorter \cup { Append(s, c) : s \in { t \in shorter : Len(t) = n - 1 }, c \in S }

\* sources: every text over PlainChars up to the length env, and every
\* character alone and after a newline
PlainSources(n) == SeqsUpTo(PlainChars, n)
AllSources(n) ==
  PlainSources(n)
    \cup { s \in { << c >> : c \in Chars } : n >= 1 }
    \cup { s \in { << "\n", c >> : c \in Chars } : n >= 2 }

\* the UTF-8 bytes of a source character
Utf8(c) == IF c = "U+00E9" THEN << "0xC3", "0xA9" >> ELSE << c >>

RECURSIVE Bytes(_)
Bytes(s) == IF s = << >> THEN << >> ELSE Utf8(Head(s)) \o Bytes(Tail(s))

\* ------------------------------------------------------- names_to_classes
\* a builder that drops a name equal to the one before it
RECURSIVE Dedup(_)
Dedup(names) ==
  IF Len(names) <= 1 THEN names
  ELSE IF names[1] = names[2] THEN Dedup(Tail(names))
  ELSE << names[1] >> \o Dedup(Tail(names))

names_to_classes_dedup(names) ==
  [ i \in 1..Len(Dedup(names)) |-> << "class=" >> \o Str(Dedup(names)[i]) ]

names_to_classes(names) ==
  [ i \in 1..Len(names) |-> << "class=" >> \o Str(names[i]) ]

\* --------------------------------------------------------------- registry
\* HighlightConfiguration::configure(names): the configuration now recognises
\* exactly `names`
configure(config, names) == [ grammar |-> config, names |-> names ]

\* an insert that keeps the entry a key already has (entry().or_insert)
hashmap_insert_keep(m, k, v) == IF m[k] # None THEN m ELSE [ m EXCEPT ![k] = Some(v) ]

\* HashMap::insert(k, v): the entry for k is v, whatever it was
hashmap_insert(m, k, v) == [ m EXCEPT ![k] = Some(v) ]

\* a lookup that falls back to some registered language
hashmap_get_fallback(m, k) ==
  IF m[k] # None \/ \A l \in DOMAIN m : m[l] = None THEN m[k]
  ELSE m[CHOOSE l \in DOMAIN m : m[l] # None]

\* HashMap::get(k)
hashmap_get(m, k) == m[k]

\* ----------------------------------------------------------- HtmlRenderer
\* Languages::render hands the events, the source and the callback to
\* tree_sitter_highlight's HtmlRenderer (render, then lines).  The operators
\* below follow that renderer; the expected output of tests::highlighting
\* shows the tag shape, the five entities and the newline that ends every
\* line, the last one included.  Sources are valid UTF-8 and Source events
\* fall on character boundaries, so the renderer's lossy UTF-8 decoding
\* passes every byte through.
\* a callback that indexes one entry too low
attribute_callback_off_by_one(classes, h) ==
  IF h >= 1 /\ h <= Len(classes) THEN classes[h] ELSE << >>

\* the closure handed to HtmlRenderer::render:
\*   |h| names.get(h.0).map(String::as_bytes).unwrap_or(b"")
attribute_callback(classes, h) ==
  IF h < Len(classes) THEN classes[h + 1] ELSE << >>

\* an escape that forgets the ampersand
html_escape_no_amp(c) ==
  CASE c = ">" -> Some(<< "&gt;" >>)
    [] c = "<" -> Some(<< "&lt;" >>)
    [] c = "'" -> Some(<< "&#39;" >>)
    [] c = "\"" -> Some(<< "&quot;" >>)
    [] OTHER -> None

\* util::html_escape of tree_sitter_highlight, as the expected output of
\* tests::highlighting pins it (&quot; &amp; &lt; &gt; and &#39; occur there)
html_escape(c) ==
  CASE c = ">" -> Some(<< "&gt;" >>)
    [] c = "<" -> Some(<< "&lt;" >>)
    [] c = "&" -> Some(<< "&amp;" >>)
    [] c = "'" -> Some(<< "&#39;" >>)
    [] c = "\"" -> Some(<< "&quot;" >>)
    [] OTHER -> None

start_highlight(html, attribute_string) ==
  html \o << "<span" >>
       \o (IF attribute_string # << >> THEN << " " >> \o attribute_string ELSE << >>)
       \o << ">" >>

end_highlight(html) == html \o << "</span>" >>

\* highlights.iter().for_each(|_| self.end_highlight())
RECURSIVE end_all(_, _)
end_all(html, n) == IF n = 0 THEN html ELSE end_all(end_highlight(html), n - 1)

\* reopening the innermost highlight first
RECURSIVE start_all_reversed(_, _, _)
start_all_reversed(html, highlights, classes) ==
  IF highlights = << >> THEN html
  ELSE start_all_reversed(
         start_highlight(html, attribute_callback(classes, highlights[Len(highlights)])),
         SubSeq(highlights, 1, Len(highlights) - 1), classes)

\* highlights.iter().for_each(|scope| self.start_highlight(*scope, cb))
RECURSIVE start_all(_, _, _)
start_all(html, highlights, classes) ==
  IF highlights = << >> THEN html
  ELSE start_all(start_highlight(html, attribute_callback(classes, Head(highlights))),
                 Tail(highlights), classes)

\* a newline that leaves the open spans open across the line boundary
add_byte_no_close(r, c, highlights, classes) ==
  IF c = "\r" THEN r
  ELSE IF c = "\n" THEN
    [ html |-> Append(r.html, c),
      line_offsets |-> Append(r.line_offsets, Len(r.html) + 1) ]
  ELSE IF html_escape(c) # None THEN
    [ r EXCEPT !.html = r.html \o html_escape(c)[1] ]
  ELSE [ r EXCEPT !.html = Append(r.html, c) ]

\* one byte of HtmlRenderer::add_text; r is the renderer [html, line_offsets].
\* Carriage returns are not rendered (carriage_return_highlight is None in a
\* renderer made by HtmlRenderer::new()).
add_byte(r, c, highlights, classes) ==
  IF c = "\r" THEN r
  ELSE IF c = "\n" THEN
    LET closed == Append(end_all(r.html, Len(highlights)), c)
    IN [ html |-> start_all(closed, highlights, classes),
         line_offsets |-> Append(r.line_offsets, Len(closed)) ]
  ELSE IF html_escape(c) # None THEN
    [ r EXCEPT !.html = r.html \o html_escape(c)[1] ]
  ELSE [ r EXCEPT !.html = Append(r.html, c) ]

\* HtmlRenderer::add_text(&source[start..end], &highlights, cb)
RECURSIVE add_text(_, _, _, _)
add_text(r, src, highlights, classes) ==
  IF src = << >> THEN r
  ELSE add_text(add_byte(r, Head(src), highlights, classes), Tail(src),
                highlights, classes)

\* a finish that keeps the line offset at the end of the html
finish_keep_offset(r) ==
  [ html |-> IF r.html # << >> /\ r.html[Len(r.html)] = "\n" THEN r.html
             ELSE Append(r.html, "\n"),
    line_offsets |-> r.line_offsets ]

\* a finish that does not terminate the last line
finish_no_newline(r) ==
  [ html |-> r.html,
    line_offsets |-> IF r.line_offsets # << >>
                        /\ r.line_offsets[Len(r.line_offsets)] = Len(r.html)
                     THEN SubSeq(r.line_offsets, 1, Len(r.line_offsets) - 1)
                     ELSE r.line_offsets ]

\* the end of HtmlRenderer::render, after the last event
finish(r) ==
  LET html == IF r.html # << >> /\ r.html[Len(r.html)] = "\n" THEN r.html
              ELSE Append(r.html, "\n")
      offs == r.line_offsets
  IN [ html |-> html,
       line_offsets |-> IF offs # << >> /\ offs[Len(offs)] = Len(html)
                        THEN SubSeq(offs, 1, Len(offs) - 1) ELSE offs ]

\* HtmlRenderer::lines(): the html between consecutive line offsets
lines(r) ==
  [ i \in 1..Len(r.line_offsets) |->
      SubSeq(r.html, r.line_offsets[i] + 1,
             IF i = Len(r.line_offsets) THEN Len(r.html) ELSE r.line_offsets[i + 1]) ]

\* renderer.lines().for_each(|line| { push "<span class=line>", line, "</span>" })
RECURSIVE wrap_lines(_, _)
wrap_lines(s, ls) ==
  IF ls = << >> THEN s
  ELSE wrap_lines(s \o << "<span class=line>" >> \o Head(ls) \o << "</span>" >>, Tail(ls))

\* the String that Languages::render builds once the renderer succeeded
shell(lang, ls) ==
  wrap_lines(<< "<pre class=language-" >> \o Str(lang) \o << "><code>" >>, ls)
    \o << "</code></pre>" >>

\* ------------------------------------------------------------------ state
VARIABLES
  inner,         \* Languages.inner: lang -> Option<(config, class table)>
  pc,            \* "idle", "events" (inside HtmlRenderer::render's loop), "done"
  lang,          \* the lang argument of the call in progress
  source,        \* the source argument of render, in characters
  pos,           \* characters of source the tokenizer has emitted as Source events
  highlights,    \* HtmlRenderer::render's local stack of open highlights
  renderer,      \* the HtmlRenderer: [html, line_offsets]
  result,        \* what the finished call returned (an Option)
  op,            \* history: the last call, [name, lang, why]
  trace,         \* history: the events of the render in progress, one per
                 \* HighlightStart, HighlightEnd and source character
  last,          \* history: lang -> the arguments of the last insert for it
  built,         \* history: the last names_to_classes call, [names, classes]
  env            \* the callers and the tokenizer: [sources, events], the
                 \* sources render is called with and the most highlight
                 \* events of one render

vars == << inner, pc, lang, source, pos, highlights, renderer, result, op,
           trace, last, built, env >>

call == << lang, source, pos, highlights, renderer, trace >>

NoRenderer == [ html |-> << >>, line_offsets |-> << >> ]
\* HtmlRenderer::new(): empty html, line_offsets = [0]
NewRenderer == [ html |-> << >>, line_offsets |-> << 0 >> ]

Ev(t, h, c) == [ t |-> t, h |-> h, c |-> c ]

NoCall ==
  /\ lang = ""
  /\ source = << >>
  /\ pos = 0
  /\ highlights = << >>
  /\ renderer = NoRenderer
  /\ trace = << >>

ClearCall ==
  /\ source' = << >>
  /\ pos' = 0
  /\ highlights' = << >>
  /\ renderer' = NoRenderer
  /\ trace' = << >>

NotBuilt == [ names |-> << >>, classes |-> None ]

\* Languages::new(): an empty map
Init ==
  /\ inner = [ l \in Langs |-> None ]
  /\ last = [ l \in Langs |-> None ]
  /\ pc = "idle"
  /\ NoCall
  /\ result = None
  /\ op = [ name |-> "new", lang |-> "", why |-> "" ]
  /\ built = NotBuilt
  /\ env = [ sources |-> PlainSources(RegLen), events |-> RegEvents ]

\* a registry holding language "x" with a two-name class table, as left by
\* Languages::new() and one insert_with_names
InitRender ==
  /\ inner = hashmap_insert([ l \in Langs |-> None ], "x",
               << configure("g1", << "string", "comment" >>),
                  names_to_classes(<< "string", "comment" >>) >>)
  /\ last = [ l \in Langs |-> IF l = "x"
                THEN Some(<< "g1", << "string", "comment" >> >>) ELSE None ]
  /\ pc = "idle"
  /\ NoCall
  /\ result = None
  /\ op = [ name |-> "insert", lang |-> "x", why |-> "" ]
  /\ built = NotBuilt
  /\ env = [ sources |-> AllSources(MaxLen), events |-> MaxEvents ]

\* -------------------------------------------------------------- Languages
\* insert_with_names(lang, config, names)
InsertWithNames(l, config, names) ==
  /\ pc = "idle"
  /\ inner' = hashmap_insert(inner, l,
                << configure(config, names), names_to_classes(names) >>)
  /\ last' = [ last EXCEPT ![l] = Some(<< config, names >>) ]
  /\ op' = [ name |-> "insert", lang |-> l,
             why |-> IF hashmap_get(inner, l) # None THEN "replaced" ELSE "" ]
  /\ UNCHANGED << pc, call, result, built, env >>

\* insert(lang, config) is insert_with_names(lang, config, NAMES)
Insert(l, config) == InsertWithNames(l, config, NAMES)

\* get(lang)
Get(l) ==
  /\ pc = "idle"
  /\ result' = hashmap_get(inner, l)
  /\ pc' = "done"
  /\ lang' = l
  /\ op' = [ name |-> "get", lang |-> l, why |-> "" ]
  /\ ClearCall
  /\ UNCHANGED << inner, last, built, env >>

\* render(lang, source) up to the first event: the lookup, then
\* Highlighter::highlight, which may fail
RenderBegin(l, src) ==
  /\ pc = "idle"
  /\ lang' = l
  /\ UNCHANGED << inner, last, built, env >>
  /\ \/ /\ hashmap_get(inner, l) = None
        /\ result' = None
        /\ pc' = "done"
        /\ op' = [ name |-> "render", lang |-> l, why |-> "unknown language" ]
        /\ ClearCall
     \/ /\ hashmap_get(inner, l) # None
        /\ result' = None
        /\ pc' = "done"
        /\ op' = [ name |-> "render", lang |-> l, why |-> "tokenizer error" ]
        /\ ClearCall
     \/ /\ hashmap_get(inner, l) # None
        /\ source' = src
        /\ pos' = 0
        /\ highlights' = << >>
        /\ renderer' = NewRenderer
        /\ trace' = << >>
        /\ pc' = "events"
        /\ op' = [ name |-> "render", lang |-> l, why |-> "" ]
        /\ UNCHANGED result

\* the class table of the language being rendered
Classes == hashmap_get(inner, lang)[1][2]

\* highlight events of the render so far
Events == Len(SelectSeq(trace, LAMBDA e : e.t # "char"))

\* Ok(HighlightEvent::HighlightStart(s))
EvStart(h) ==
  /\ pc = "events"
  /\ Events < env.events
  /\ highlights' = Append(highlights, h)
  /\ renderer' = [ renderer EXCEPT
                     !.html = start_highlight(@, attribute_callback(Classes, h)) ]
  /\ trace' = Append(trace, Ev("start", h, ""))
  /\ UNCHANGED << inner, last, built, env, pc, lang, source, pos, result, op >>

\* Ok(HighlightEvent::HighlightEnd): Vec::pop on an empty stack is a no-op
EvEnd ==
  /\ pc = "events"
  /\ Events < env.events
  /\ highlights' = IF highlights = << >> THEN << >>
                   ELSE SubSeq(highlights, 1, Len(highlights) - 1)
  /\ renderer' = [ renderer EXCEPT !.html = end_highlight(@) ]
  /\ trace' = Append(trace, Ev("end", -1, ""))
  /\ UNCHANGED << inner, last, built, env, pc, lang, source, pos, result, op >>

\* Ok(HighlightEvent::Source { start, end }) for the next n characters
EvSource(n) ==
  /\ pc = "events"
  /\ pos + n <= Len(source)
  /\ LET chunk == SubSeq(source, pos + 1, pos + n)
     IN /\ renderer' = add_text(renderer, Bytes(chunk), highlights, Classes)
        /\ trace' = trace \o [ i \in 1..n |-> Ev("char", -1, chunk[i]) ]
  /\ pos' = pos + n
  /\ UNCHANGED << inner, last, built, env, pc, lang, source, highlights, result, op >>

\* Err(a) from the event iterator: HtmlRenderer::render returns Err, .ok() is None
EvErr ==
  /\ pc = "events"
  /\ result' = None
  /\ pc' = "done"
  /\ op' = [ op EXCEPT !.why = "tokenizer error" ]
  /\ ClearCall
  /\ UNCHANGED << inner, last, built, env, lang >>

\* the iterator is exhausted (the tokenizer has emitted the whole source):
\* the renderer finishes and render builds the fragment
EvFinish ==
  /\ pc = "events"
  /\ pos = Len(source)
  /\ renderer' = finish(renderer)
  /\ result' = Some(shell(lang, lines(finish(renderer))))
  /\ pc' = "done"
  /\ UNCHANGED << inner, last, built, env, lang, source, pos, highlights, trace, op >>

\* the caller takes the result
Return ==
  /\ pc = "done"
  /\ pc' = "idle"
  /\ lang' = ""
  /\ result' = None
  /\ ClearCall
  /\ UNCHANGED << inner, last, built, env, op >>

Render ==
  \/ \E l \in Langs, src \in env.sources : RenderBegin(l, src)
  \/ \E h \in Captures : EvStart(h)
  \/ EvEnd
  \/ \E n \in 1..MaxLen : EvSource(n)
  \/ EvErr
  \/ EvFinish
  \/ Return

Next ==
  \/ \E l \in Langs, g \in Grammars : Insert(l, g)
  \/ \E l \in Langs, g \in Grammars, names \in CustomNames : InsertWithNames(l, g, names)
  \/ \E l \in Langs : Get(l)
  \/ Render

Spec == Init /\ [][Next]_vars

\* rendering against a populated registry
SpecRender == InitRender /\ [][Render]_vars

\* names_to_classes on its own: any list of role names, then the call
InitClasses ==
  /\ inner = [ l \in Langs |-> None ]
  /\ last = [ l \in Langs |-> None ]
  /\ pc = "idle"
  /\ NoCall
  /\ result = None
  /\ op = [ name |-> "new", lang |-> "", why |-> "" ]
  /\ built \in { [ names |-> n, classes |-> None ] : n \in SeqsUpTo(RoleNames, MaxNames) }
  /\ env = [ sources |-> { }, events |-> 0 ]

NamesToClasses ==
  /\ built.classes = None
  /\ built' = [ built EXCEPT !.classes = Some(names_to_classes(built.names)) ]
  /\ UNCHANGED << inner, pc, call, result, op, last, env >>

SpecClasses == InitClasses /\ [][NamesToClasses]_vars

\* ================================================================= claims
\* ---- reading the event history

\* the stack of open highlights after the events tr, starting from st
\* (an end event on an empty stack leaves it empty)
RECURSIVE StackAfter(_, _)
StackAfter(tr, st) ==
  IF tr = << >> THEN st
  ELSE LET e == Head(tr)
       IN StackAfter(Tail(tr),
            IF e.t = "start" THEN Append(st, e.h)
            ELSE IF e.t = "end" /\ st # << >> THEN SubSeq(st, 1, Len(st) - 1)
            ELSE st)

\* an end event of tr has no open start
HasStrayEnd(tr) ==
  \E i \in 1..Len(tr) : tr[i].t = "end" /\ StackAfter(SubSeq(tr, 1, i - 1), << >>) = << >>

\* a start event of tr carries a capture index outside a table of n classes
HasBadCapture(tr, n) == \E i \in 1..Len(tr) : tr[i].t = "start" /\ ~(tr[i].h \in 0..(n - 1))

\* properly nested, in-range, every region ended
ValidStream(tr, n) ==
  /\ ~HasStrayEnd(tr)
  /\ ~HasBadCapture(tr, n)
  /\ StackAfter(tr, << >>) = << >>

\* the open highlights at each newline character of tr, in source order
NewlineStacks(tr) ==
  LET idx == SelectSeq([ i \in 1..Len(tr) |-> i ],
                       LAMBDA i : tr[i].t = "char" /\ tr[i].c = "\n")
  IN [ j \in 1..Len(idx) |-> StackAfter(SubSeq(tr, 1, idx[j]), << >>) ]

Newlines(src) == Len(SelectSeq(src, LAMBDA c : c = "\n"))

\* the role names the language being rendered was configured with
RoleNamesOf(l) == hashmap_get(inner, l)[1][1].names

\* a render of a registered language has returned a fragment
Rendered == pc = "done" /\ op.name = "render" /\ result # None

\* ---- reading a returned fragment

\* the fragment between <pre class=language-L><code> and </code></pre>
BodyOf(s) == SubSeq(s, 4, Len(s) - 1)

HasShell(s, l) ==
  /\ Len(s) >= 4
  /\ SubSeq(s, 1, 3) = << "<pre class=language-", l, "><code>" >>
  /\ s[Len(s)] = "</code></pre>"

\* strictly nested spans: a line-span opens only at depth zero outside any
\* line-span, role spans open only inside a line-span, and every </span>
\* closes the innermost open span
RECURSIVE Nested(_, _, _, _)
Nested(b, i, inLine, depth) ==
  IF i > Len(b) THEN ~inLine /\ depth = 0
  ELSE IF b[i] = "<span class=line>" THEN
    ~inLine /\ depth = 0 /\ Nested(b, i + 1, TRUE, 0)
  ELSE IF b[i] = "<span" THEN inLine /\ Nested(b, i + 1, inLine, depth + 1)
  ELSE IF b[i] = "</span>" THEN
    IF depth > 0 THEN Nested(b, i + 1, inLine, depth - 1)
    ELSE inLine /\ Nested(b, i + 1, FALSE, 0)
  ELSE Nested(b, i + 1, inLine, depth)

\* the contents of the line-spans of body b: what lies between each
\* <span class=line> and the </span> before the next one (or the body's end)
LineSegments(b) ==
  LET at == SelectSeq([ i \in 1..Len(b) |-> i ], LAMBDA i : b[i] = "<span class=line>")
  IN [ j \in 1..Len(at) |->
         SubSeq(b, at[j] + 1, (IF j = Len(at) THEN Len(b) ELSE at[j + 1] - 1) - 1) ]

\* every line-span is closed by </span> right before the next one or the end
LinesClosed(b) ==
  /\ b # << >> => b[1] = "<span class=line>" /\ b[Len(b)] = "</span>"
  /\ \A i \in 2..Len(b) : b[i] = "<span class=line>" => b[i - 1] = "</span>"

\* the text pieces of body b: everything that is not part of a tag
RECURSIVE TextOf(_, _, _)
TextOf(b, i, inTag) ==
  IF i > Len(b) THEN << >>
  ELSE IF inTag THEN TextOf(b, i + 1, b[i] # ">")
  ELSE IF b[i] = "<span" THEN TextOf(b, i + 1, TRUE)
  ELSE IF b[i] \in {"<span class=line>", "</span>"} THEN TextOf(b, i + 1, FALSE)
  ELSE << b[i] >> \o TextOf(b, i + 1, FALSE)

\* depth of open role spans after the pieces seg
RECURSIVE Depth(_)
Depth(seg) ==
  IF seg = << >> THEN 0
  ELSE Depth(SubSeq(seg, 1, Len(seg) - 1))
         + (IF seg[Len(seg)] = "<span" THEN 1 ELSE IF seg[Len(seg)] = "</span>" THEN -1 ELSE 0)

\* the opening tag of a role span
OpenTag(name) == << "<span", " ", "class=", name, ">" >>

RECURSIVE OpenTags(_, _)
\* the opening tags of the stack st, first pushed first
OpenTags(st, names) ==
  IF st = << >> THEN << >>
  ELSE (IF Head(st) \in 0..(Len(names) - 1) THEN OpenTag(names[Head(st) + 1])
        ELSE << "<span", ">" >>) \o OpenTags(Tail(st), names)

CloseTags(n) == [ i \in 1..n |-> "</span>" ]

\* source text escaped for exactly & < > "
Escaped4(c) ==
  CASE c = "&" -> << "&amp;" >>
    [] c = "<" -> << "&lt;" >>
    [] c = ">" -> << "&gt;" >>
    [] c = "\"" -> << "&quot;" >>
    [] c = "U+00E9" -> << "0xC3", "0xA9" >>
    [] OTHER -> << c >>

\* the same with the apostrophe as &#39; and the carriage return left out
Escaped5(c) ==
  CASE c = "'" -> << "&#39;" >>
    [] c = "\r" -> << >>
    [] OTHER -> Escaped4(c)

RECURSIVE EscapedText4(_)
EscapedText4(src) ==
  IF src = << >> THEN << >> ELSE Escaped4(Head(src)) \o EscapedText4(Tail(src))

RECURSIVE EscapedText5(_)
EscapedText5(src) ==
  IF src = << >> THEN << >> ELSE Escaped5(Head(src)) \o EscapedText5(Tail(src))

\* ------------------------------------------------------------------- C1
\* C1: a render call for a language that was never inserted completes at
\* once, returns None (never a fragment), and leaves the registry as it was.
C1_UnknownLanguageIsAbsent ==
  [][ (pc = "idle" /\ pc' # "idle" /\ op'.name = "render" /\ last[lang'] = None)
        => (pc' = "done" /\ result' = None /\ inner' = inner) ]_vars

\* reached: render of a never-inserted language returned None while another
\* language is registered
C1_Witness ==
  /\ pc = "done" /\ op.name = "render" /\ op.why = "unknown language"
  /\ last[lang] = None /\ result = None
  /\ \E l \in Langs : inner[l] # None

\* ------------------------------------------------------------------- C2
\* C2: every entry is the (configuration, class table) pair of the most
\* recent insert for its id, the class table being "class=" + each role name
\* of that insert; ids never inserted have no entry; get returns the entry.
C2_LastInsertWins ==
  /\ \A l \in Langs :
       IF last[l] = None THEN inner[l] = None
       ELSE LET config == last[l][1][1]
                names == last[l][1][2]
            IN inner[l] = << << [ grammar |-> config, names |-> names ],
                                [ i \in 1..Len(names) |-> << "class=", names[i] >> ] >> >>
  /\ (pc = "done" /\ op.name = "get") => result = inner[lang]

\* reached: an insert replaced an earlier entry for its id while the other id
\* holds a different entry
C2_Witness ==
  /\ op.name = "insert" /\ op.why = "replaced"
  /\ \A l \in Langs : inner[l] # None
  /\ inner["x"] # inner["y"]

\* ------------------------------------------------------------------- C3
\* C3: names_to_classes returns a list as long as the role names, whose
\* element i is "class=" followed by role name i as given: nothing dropped,
\* nothing escaped, nothing reordered.
C3_ClassTable ==
  built.classes # None =>
    LET out == built.classes[1]
    IN /\ Len(out) = Len(built.names)
       /\ \A i \in 1..Len(built.names) :
            out[i] = IF built.names[i] = "" THEN << "class=" >>
                     ELSE << "class=", built.names[i] >>

\* reached: a table built from names with a duplicate, an empty name and a
\* name holding "<"
C3_Witness ==
  /\ built.classes # None
  /\ built.names = << "string", "string", "" >> \/ built.names = << "a<b", "", "" >>
  /\ Len(built.classes[1]) = 3

\* ------------------------------------------------------------------- C4
\* C4: for a properly nested event stream with in-range capture indices, the
\* fragment is the shell around line-spans that are strictly nested: every
\* span opened is closed, and the depth of open role spans is zero where a
\* line-span opens, where it closes, and at the end.
C4_WellFormed ==
  (Rendered /\ ValidStream(trace, Len(Classes))) =>
    /\ HasShell(result[1], lang)
    /\ Nested(BodyOf(result[1]), 1, FALSE, 0)

\* reached: a valid stream with two nested regions open across a newline
C4_Witness ==
  /\ Rendered /\ ValidStream(trace, Len(Classes))
  /\ \E i \in 1..Len(NewlineStacks(trace)) : Len(NewlineStacks(trace)[i]) = 2
  /\ Nested(BodyOf(result[1]), 1, FALSE, 0)

\* ------------------------------------------------------------------- C5
\* C5 as stated: a source with k newlines renders to exactly k+1 line-spans,
\* also when its last byte is a newline.
C5_LineCountAsStated ==
  Rendered => Len(LineSegments(BodyOf(result[1]))) = Newlines(source) + 1

\* the last event of tr that puts anything into the html (a carriage return
\* character puts nothing)
LastRendered(tr) ==
  LET at == SelectSeq([ i \in 1..Len(tr) |-> i ],
                      LAMBDA i : ~(tr[i].t = "char" /\ tr[i].c = "\r"))
  IN IF at = << >> THEN Ev("none", -1, "") ELSE tr[at[Len(at)]]

\* nothing is rendered after the source's last newline
EndsAtNewline ==
  /\ LastRendered(trace).t = "char" /\ LastRendered(trace).c = "\n"
  /\ highlights = << >>

\* C5 amended: k+1 line-spans, except that a source whose last newline has
\* nothing rendered after it (no byte but carriage returns, no highlight open
\* across it, no highlight event after it) renders to exactly k line-spans.
C5_LineCount ==
  Rendered =>
    Len(LineSegments(BodyOf(result[1])))
      = IF EndsAtNewline THEN Newlines(source) ELSE Newlines(source) + 1

\* reached: a source ending in a newline rendered to k line-spans, k >= 1
C5_Witness ==
  /\ Rendered /\ EndsAtNewline
  /\ Newlines(source) >= 1 /\ source[Len(source)] = "\n"
  /\ Len(LineSegments(BodyOf(result[1]))) = Newlines(source)

\* ------------------------------------------------------------------- C6
\* the events of the finished render were malformed
MalformedStream ==
  /\ hashmap_get(inner, lang) # None
  /\ HasBadCapture(trace, Len(Classes)) \/ HasStrayEnd(trace)

\* C6 as stated: when a start event carries a capture index outside the class
\* table, or an end event has no open start, or tokenization fails, render
\* returns None.
C6_FailsClosed ==
  (pc = "done" /\ op.name = "render" /\ (op.why = "tokenizer error" \/ MalformedStream))
    => result = None

\* ------------------------------------------------------------------- C7
\* C7 as stated: the text of the fragment is the source with exactly
\* & < > " replaced by their entities and every other byte unchanged.
C7_EscapesFourAsStated ==
  Rendered =>
    LET text == TextOf(BodyOf(result[1]), 1, FALSE)
    IN text = EscapedText4(source) \/ text = Append(EscapedText4(source), "\n")

\* C7 amended: the text of the fragment is the source with & < > " and the
\* apostrophe replaced (&amp; &lt; &gt; &quot; &#39;), carriage returns left
\* out, and every other byte, the bytes of a multi-byte character included,
\* unchanged; a final newline may follow.
C7_EscapesFive ==
  Rendered =>
    LET text == TextOf(BodyOf(result[1]), 1, FALSE)
    IN text = EscapedText5(source) \/ text = Append(EscapedText5(source), "\n")

\* reached: an apostrophe inside a highlighted region came out as &#39;
C7_Witness ==
  /\ Rendered /\ source = << "\n", "'" >> /\ trace # << >> /\ trace[1].t = "start"
  /\ TextOf(BodyOf(result[1]), 1, FALSE) = << "\n", "&#39;", "\n" >>

\* ------------------------------------------------------------------- C8
\* C8: at every newline, with the highlights S open there, the line-span ends
\* with one </span> per element of S followed by the newline, and when S is
\* not empty the next line-span begins with the opening tags of S, first
\* pushed first.
C8_SplitAtNewline ==
  Rendered =>
    LET segs == LineSegments(BodyOf(result[1]))
        stacks == NewlineStacks(trace)
    IN \A j \in 1..Len(stacks) :
         LET tail == Append(CloseTags(Len(stacks[j])), "\n")
             head == OpenTags(stacks[j], RoleNamesOf(lang))
         IN /\ j <= Len(segs)
            /\ Len(segs[j]) >= Len(tail)
            /\ SubSeq(segs[j], Len(segs[j]) - Len(tail) + 1, Len(segs[j])) = tail
            /\ stacks[j] # << >> =>
                 /\ j + 1 <= Len(segs)
                 /\ Len(segs[j + 1]) >= Len(head)
                 /\ SubSeq(segs[j + 1], 1, Len(head)) = head

\* reached: two different nested regions open across a newline, closed and
\* reopened in push order
C8_Witness ==
  /\ Rendered /\ ValidStream(trace, Len(Classes))
  /\ \E j \in 1..Len(NewlineStacks(trace)) : NewlineStacks(trace)[j] = << 1, 0 >>
  /\ \E j \in 1..Len(LineSegments(BodyOf(result[1]))) :
       LET seg == LineSegments(BodyOf(result[1]))[j]
       IN Len(seg) >= 10
            /\ SubSeq(seg, 1, 10) = OpenTag("comment") \o OpenTag("string")

\* ------------------------------------------------------------------- C9
\* one region, tagged with an in-range capture, covering a newline-free source
WholeSourceRegion ==
  /\ Rendered
  /\ Newlines(source) = 0
  /\ Len(trace) = Len(source) + 2
  /\ trace[1].t = "start" /\ trace[1].h \in 0..(Len(Classes) - 1)
  /\ trace[Len(trace)].t = "end"

\* C9 as stated: the fragment is exactly
\* <pre class=language-L><code><span class=line><span class=R>TEXT</span></span></code></pre>
C9_SingleRegionAsStated ==
  WholeSourceRegion =>
    result[1] = << "<pre class=language-", lang, "><code>", "<span class=line>" >>
                  \o OpenTag(RoleNamesOf(lang)[trace[1].h + 1])
                  \o EscapedText5(source)
                  \o << "</span>", "</span>", "</code></pre>" >>

\* C9 amended: the fragment is exactly
\* <pre class=language-L><code><span class=line><span class=R>TEXT</span>\n</span></code></pre>
\* with a newline between the role span's </span> and the line-span's.
C9_SingleRegion ==
  WholeSourceRegion =>
    result[1] = << "<pre class=language-", lang, "><code>", "<span class=line>" >>
                  \o OpenTag(RoleNamesOf(lang)[trace[1].h + 1])
                  \o EscapedText5(source)
                  \o << "</span>", "\n", "</span>", "</code></pre>" >>

\* reached: source "aa" in one region tagged "comment"
C9_Witness ==
  /\ WholeSourceRegion /\ source = << "a", "a" >> /\ trace[1].h = 1
  /\ Len(LineSegments(BodyOf(result[1]))) = 1

\* ------------------------------------------------------------------ C10
\* C10: every line-span's content ends with a newline right before the
\* line-span's </span>, the last one too; line-spans follow one another and
\* </code></pre> with nothing in between; and when the event stream is
\* properly nested no role span is open at that newline.
C10_NewlineInsideLineSpan ==
  Rendered =>
    LET body == BodyOf(result[1])
        segs == LineSegments(body)
    IN /\ HasShell(result[1], lang)
       /\ LinesClosed(body)
       /\ Len(segs) >= 1
       /\ \A j \in 1..Len(segs) :
            /\ segs[j] # << >> /\ segs[j][Len(segs[j])] = "\n"
            /\ ValidStream(trace, Len(Classes)) => Depth(segs[j]) = 0

\* reached: a source not ending in a newline whose last line-span still ends
\* with one, after the role span is closed
C10_Witness ==
  /\ Rendered /\ ValidStream(trace, Len(Classes))
  /\ source = << "\n", "a" >> /\ trace[Len(trace)].t = "end"
  /\ LET segs == LineSegments(BodyOf(result[1]))
     IN Len(segs) = 2 /\ segs[2][Len(segs[2])] = "\n"
          /\ segs[2][Len(segs[2]) - 1] = "</span>"

====
